---- MODULE Spec2Model ----
(***************************************************************************)
(* Template filters of core/templatetags/field_attrs.py: set_attr,         *)
(* clear_attr, append_class and remove_class, each guarded by the          *)
(* boundfield_required decorator, acting on the widget attribute mapping   *)
(* value.field.widget.attrs of a form field.                               *)
(*                                                                         *)
(* A Python str is a sequence of one-character strings, so that strip,     *)
(* split, int and float are computed character by character.  A value of   *)
(* the mapping is tagged with its Python type: a str, an int, or a float   *)
(* (held as a reduced fraction <<numerator, denominator>>).                *)
(***************************************************************************)
EXTENDS Integers, Sequences, FiniteSets, TLC

VARIABLES
    attrs,      \* value.field.widget.attrs: the widget's attribute mapping
    pre,        \* the mapping as it was when the last filter was called
    op,         \* name of the last filter called ("none" before any call)
    arg,        \* the string argument of that call
    isField,    \* whether the value passed was a BoundField
    err         \* what the call raised (kind "none": it returned value)

vars == <<attrs, pre, op, arg, isField, err>>

----------------------------------------------------------------------------
(* Python values and str primitives *)

StrVal(s) == [t |-> "str", v |-> s]
IntVal(n) == [t |-> "int", v |-> n]

RECURSIVE Gcd(_,_)
Gcd(a, b) == IF b = 0 THEN a ELSE Gcd(b, a % b)

Abs(n) == IF n < 0 THEN -n ELSE n

FloatVal(num, den) ==
    LET g == Gcd(Abs(num), den)
    IN  [t |-> "float", v |-> <<num \div g, den \div g>>]

Whitespace == {" ", "\t", "\n", "\r"}

RECURSIVE lstrip(_)
lstrip(s) == IF s # <<>> /\ Head(s) \in Whitespace THEN lstrip(Tail(s)) ELSE s

RECURSIVE rstrip(_)
rstrip(s) ==
    IF s # <<>> /\ s[Len(s)] \in Whitespace
    THEN rstrip(SubSeq(s, 1, Len(s) - 1))
    ELSE s

\* str.strip() with no argument
strip(s) == rstrip(lstrip(s))

\* sep in s, for a one-character sep
Contains(s, sep) == \E i \in 1..Len(s) : s[i] = sep

\* s.find(sep) as a 1-based index; only used when sep is in s
Find(s, sep) == CHOOSE i \in 1..Len(s) : s[i] = sep /\ \A j \in 1..(i - 1) : s[j] # sep

\* s.split(sep): every sep separates, empty pieces are kept
RECURSIVE SplitOn(_,_)
SplitOn(s, sep) ==
    IF Contains(s, sep)
    THEN <<SubSeq(s, 1, Find(s, sep) - 1)>>
         \o SplitOn(SubSeq(s, Find(s, sep) + 1, Len(s)), sep)
    ELSE <<s>>

\* s.split(): runs of whitespace separate, no empty pieces
RECURSIVE SplitWs(_)
SplitWs(s) ==
    LET t == lstrip(s)
    IN  IF t = <<>> THEN <<>>
        ELSE LET ends == {i \in 1..Len(t) : t[i] \in Whitespace}
                 n == IF ends = {} THEN Len(t) + 1
                      ELSE CHOOSE i \in ends : \A j \in ends : i <= j
             IN  <<SubSeq(t, 1, n - 1)>> \o SplitWs(SubSeq(t, n, Len(t)))

\* sep.join(parts)
RECURSIVE Join(_,_)
Join(parts, sep) ==
    IF parts = <<>> THEN <<>>
    ELSE IF Len(parts) = 1 THEN parts[1]
    ELSE parts[1] \o sep \o Join(Tail(parts), sep)

Range(f) == {f[i] : i \in DOMAIN f}

----------------------------------------------------------------------------
(* int(val) and float(val) on the characters the inputs are drawn from:    *)
(* an optional sign, decimal digits and, for float, one decimal point.     *)
(* The inputs hold no underscore, exponent, "inf" or "nan", which Python    *)
(* would accept as well.                                                    *)

Digits == {"0", "1", "2", "3", "4", "5", "6", "7", "8", "9"}

DigitValue(c) ==
    CASE c = "0" -> 0 [] c = "1" -> 1 [] c = "2" -> 2 [] c = "3" -> 3
      [] c = "4" -> 4 [] c = "5" -> 5 [] c = "6" -> 6 [] c = "7" -> 7
      [] c = "8" -> 8 [] c = "9" -> 9

AllDigits(s) == \A i \in 1..Len(s) : s[i] \in Digits

RECURSIVE DigitsValue(_)
DigitsValue(s) ==
    IF s = <<>> THEN 0
    ELSE 10 * DigitsValue(SubSeq(s, 1, Len(s) - 1)) + DigitValue(s[Len(s)])

RECURSIVE Pow10(_)
Pow10(n) == IF n = 0 THEN 1 ELSE 10 * Pow10(n - 1)

HasSign(s) == s # <<>> /\ Head(s) \in {"+", "-"}
Unsigned(s) == IF HasSign(s) THEN Tail(s) ELSE s
Sign(s) == IF s # <<>> /\ Head(s) = "-" THEN -1 ELSE 1

\* int(val) does not raise ValueError
IsInt(val) == Unsigned(val) # <<>> /\ AllDigits(Unsigned(val))

ParseInt(val) == Sign(val) * DigitsValue(Unsigned(val))

\* float(val) does not raise ValueError
IsFloat(val) ==
    LET u == Unsigned(val)
    IN  IF Contains(u, ".")
        THEN LET p == Find(u, ".")
                 whole == SubSeq(u, 1, p - 1)
                 frac == SubSeq(u, p + 1, Len(u))
             IN  AllDigits(whole) /\ AllDigits(frac) /\ whole \o frac # <<>>
        ELSE u # <<>> /\ AllDigits(u)

\* float(val) as <<numerator, denominator>>
ParseFloat(val) ==
    LET u == Unsigned(val)
    IN  IF Contains(u, ".")
        THEN LET p == Find(u, ".")
                 whole == SubSeq(u, 1, p - 1)
                 frac == SubSeq(u, p + 1, Len(u))
             IN  <<Sign(val) * DigitsValue(whole \o frac), Pow10(Len(frac))>>
        ELSE <<Sign(val) * DigitsValue(u), 1>>

----------------------------------------------------------------------------
(* The mapping: a function from keys (str) to tagged values *)

EmptyDict == <<>>

\* m[k] = v
Put(m, k, v) == [x \in (DOMAIN m) \cup {k} |-> IF x = k THEN v ELSE m[x]]

\* del m[k]
Del(m, k) == [x \in (DOMAIN m) \ {k} |-> m[x]]

\* m.get(k, default)
Get(m, k, default) == IF k \in DOMAIN m THEN m[k] ELSE default

----------------------------------------------------------------------------
(* Keys of the module *)

k_min == <<"m", "i", "n">>
k_max == <<"m", "a", "x">>
k_step == <<"s", "t", "e", "p">>
k_size == <<"s", "i", "z", "e">>
k_minlength == <<"m", "i", "n", "l", "e", "n", "g", "t", "h">>
k_maxlength == <<"m", "a", "x", "l", "e", "n", "g", "t", "h">>
k_cols == <<"c", "o", "l", "s">>
k_rows == <<"r", "o", "w", "s">>
k_class == <<"c", "l", "a", "s", "s">>

\* NUMERIC_KEYS with "min" forgotten
NUMERIC_KEYS_WithoutMin ==
    {k_max, k_step, k_size, k_minlength, k_maxlength, k_cols, k_rows}

NUMERIC_KEYS ==
    {k_min, k_max, k_step, k_size, k_minlength, k_maxlength, k_cols, k_rows}

\* INTEGER_KEYS with "size" forgotten
INTEGER_KEYS_WithoutSize == {k_minlength, k_maxlength, k_cols, k_rows}

INTEGER_KEYS == {k_size, k_minlength, k_maxlength, k_cols, k_rows}

----------------------------------------------------------------------------
(* Outcomes of a call *)

NoError ==
    [kind |-> "none", func |-> "", val |-> <<>>, key |-> <<>>,
     expected_type |-> ""]

\* TypeError("The '<func>' filter can only be applied to form fields ...")
TypeError(func) ==
    [kind |-> "TypeError", func |-> func, val |-> <<>>, key |-> <<>>,
     expected_type |-> ""]

\* TemplateSyntaxError("The value '<val>' for '<key>' attribute must be a
\* valid <expected_type>.")
TemplateSyntaxError(val, key, expected_type) ==
    [kind |-> "TemplateSyntaxError", func |-> "", val |-> val, key |-> key,
     expected_type |-> expected_type]

----------------------------------------------------------------------------
(* set_attr *)

escape_char == "\\"
delimiter == ","

\* the while loop of split_attributes, from index i (1-based) on, and the
\* final append of a non-empty current
RECURSIVE SplitLoop(_,_,_,_)
SplitLoop(s, i, current, parts) ==
    IF i > Len(s)
    THEN IF current # <<>> THEN Append(parts, current) ELSE parts
    ELSE LET char == s[i]
         IN  IF char = delimiter
                /\ (current = <<>> \/ current[Len(current)] # escape_char)
             THEN SplitLoop(s, i + 1, <<>>, Append(parts, current))
             ELSE IF char = escape_char /\ i + 1 <= Len(s) /\ s[i + 1] = delimiter
             THEN SplitLoop(s, i + 2, Append(current, delimiter), parts)
             ELSE SplitLoop(s, i + 1, Append(current, char), parts)

\* a tokenizer that takes every comma for a separator
split_attributes_EveryComma(s) ==
    LET p == SplitOn(s, ",")
    IN  IF p[Len(p)] = <<>> THEN SubSeq(p, 1, Len(p) - 1) ELSE p

split_attributes(s) == SplitLoop(s, 1, <<>>, <<>>)

\* the body of the for loop for one attribute: the mapping and the error
SetOne(m, part) ==
    LET attribute == strip(part)
    IN  IF Contains(attribute, "=")
        THEN LET eq == Find(attribute, "=")
                 key == strip(SubSeq(attribute, 1, eq - 1))
                 val == strip(SubSeq(attribute, eq + 1, Len(attribute)))
             IN  IF key \in NUMERIC_KEYS
                 THEN IF key \in INTEGER_KEYS
                      THEN IF IsInt(val)
                           THEN [attrs |-> Put(m, key, IntVal(ParseInt(val))),
                                 err |-> NoError]
                           ELSE [attrs |-> m,
                                 err |-> TemplateSyntaxError(val, key, "integer")]
                      ELSE IF IsFloat(val)
                           THEN [attrs |-> Put(m, key,
                                               FloatVal(ParseFloat(val)[1],
                                                        ParseFloat(val)[2])),
                                 err |-> NoError]
                           ELSE [attrs |-> m,
                                 err |-> TemplateSyntaxError(val, key,
                                                             "floating-point")]
                 ELSE [attrs |-> Put(m, key, StrVal(val)), err |-> NoError]
        ELSE [attrs |-> Put(m, attribute, StrVal(<<>>)), err |-> NoError]

\* the for loop over the parts, left to right, ended by the first raise
RECURSIVE SetLoop(_,_,_)
SetLoop(m, parts, i) ==
    IF i > Len(parts) THEN [attrs |-> m, err |-> NoError]
    ELSE LET r == SetOne(m, parts[i])
         IN  IF r.err.kind # "none" THEN r ELSE SetLoop(r.attrs, parts, i + 1)

\* a set_attr that undoes its writes when a token fails
set_attr_RolledBack(m, attributes_string) ==
    LET r == SetLoop(m, split_attributes(attributes_string), 1)
    IN  IF r.err.kind # "none" THEN [attrs |-> m, err |-> r.err] ELSE r

set_attr(m, attributes_string) == SetLoop(m, split_attributes(attributes_string), 1)

----------------------------------------------------------------------------
(* clear_attr *)

RECURSIVE ClearLoop(_,_,_)
ClearLoop(m, names, i) ==
    IF i > Len(names) THEN m
    ELSE LET attr_name == strip(names[i])
         IN  IF attr_name \in DOMAIN m
             THEN ClearLoop(Del(m, attr_name), names, i + 1)
             ELSE ClearLoop(m, names, i + 1)

\* a clear_attr that does not strip the names
clear_attr_Unstripped(m, attr_names) ==
    [k \in (DOMAIN m) \ Range(SplitOn(attr_names, ",")) |-> m[k]]

clear_attr(m, attr_names) == ClearLoop(m, SplitOn(attr_names, ","), 1)

----------------------------------------------------------------------------
(* append_class and remove_class *)

\* set(attrs.get("class", "").split())
current_classes(m) == Range(SplitWs(Get(m, k_class, StrVal(<<>>)).v))

\* the class names of the argument: split on commas, then on whitespace,
\* each stripped
ClassNames(classes) ==
    LET sets == SplitOn(classes, ",")
    IN  UNION {{strip(class_name) : class_name \in Range(SplitWs(sets[i]))}
               : i \in DOMAIN sets}

\* the orders in which a set can be iterated
Orders(S) ==
    {f \in [1..Cardinality(S) -> S] : \A i, j \in DOMAIN f : f[i] = f[j] => i = j}

SpaceJoined(S) == {Join(f, <<" ">>) : f \in Orders(S)}

\* an append_class that replaces the classes instead of adding to them
append_class_Replacing(m, new_classes) ==
    LET classes == {c \in ClassNames(new_classes) : c # <<>>}
    IN  IF classes # {}
        THEN {Put(m, k_class, StrVal(j)) : j \in SpaceJoined(classes)}
        ELSE {m}

\* an append_class that writes the class string back even when it is empty
append_class_AlwaysWriting(m, new_classes) ==
    LET classes == current_classes(m)
                   \cup {c \in ClassNames(new_classes) : c # <<>>}
    IN  {Put(m, k_class, StrVal(j)) : j \in SpaceJoined(classes)}

\* the mappings append_class can leave: the join iterates the set in an
\* order the hash seed decides
append_class(m, new_classes) ==
    LET classes == current_classes(m)
                   \cup {c \in ClassNames(new_classes) : c # <<>>}
    IN  IF classes # {}
        THEN {Put(m, k_class, StrVal(j)) : j \in SpaceJoined(classes)}
        ELSE {m}

\* a remove_class that leaves an empty class string instead of deleting it
remove_class_LeavingEmpty(m, class_names) ==
    LET classes == current_classes(m) \ ClassNames(class_names)
    IN  {Put(m, k_class, StrVal(j)) : j \in SpaceJoined(classes)}

remove_class(m, class_names) ==
    LET classes == current_classes(m) \ ClassNames(class_names)
    IN  IF classes # {}
        THEN {Put(m, k_class, StrVal(j)) : j \in SpaceJoined(classes)}
        ELSE IF k_class \in DOMAIN m THEN {Del(m, k_class)} ELSE {m}

----------------------------------------------------------------------------
(* The decorator and the registered filters *)

\* what the undecorated filter does to mapping m: the possible outcomes
Filter(func, m, a) ==
    CASE func = "set_attr" -> {set_attr(m, a)}
      [] func = "clear_attr" -> {[attrs |-> clear_attr(m, a), err |-> NoError]}
      [] func = "append_class" ->
            {[attrs |-> n, err |-> NoError] : n \in append_class(m, a)}
      [] func = "remove_class" ->
            {[attrs |-> n, err |-> NoError] : n \in remove_class(m, a)}

\* a wrapper that runs the filter before it checks the value
boundfield_required_CheckedLate(func, isBoundField, m, a) ==
    {IF ~isBoundField THEN [attrs |-> r.attrs, err |-> TypeError(func)] ELSE r
     : r \in Filter(func, m, a)}

\* wrapper(value, *args): the isinstance check, then the filter itself
boundfield_required(func, isBoundField, m, a) ==
    IF ~isBoundField
    THEN {[attrs |-> m, err |-> TypeError(func)]}
    ELSE Filter(func, m, a)

----------------------------------------------------------------------------
(* Bounds and the inputs drawn within them *)

\* longest argument, in pieces, of the character-level inputs
MaxLen == 4
\* most tokens of a set_attr argument made of whole key=value tokens
MaxTokens == 2

\* the strings made of at most n pieces of P
RECURSIVE Concats(_,_)
Concats(P, n) ==
    IF n = 0 THEN {<<>>}
    ELSE LET S == Concats(P, n - 1) IN S \cup {s \o p : s \in S, p \in P}

k_id == <<"i", "d">>

\* set_attr arguments, character by character
SetChars == {<<"a">>, <<",">>, <<"\\">>, <<"=">>, <<" ">>}

\* set_attr tokens: an integer key, a float key and a plain key, bare or
\* with an integer, a negative integer, a decimal, a non-numeric or an
\* empty value
SetTokens ==
    {k \o sfx : k \in {k_size, k_min, k_id},
                sfx \in {<<>>, <<"=", "7">>, <<"=", "-", "7">>,
                         <<"=", "1", ".", "5">>, <<"=", "x">>, <<"=">>}}
    \cup {<<" ">> \o k_size \o <<" ", "=", " ", "7", " ">>}

RECURSIVE TokenSpecs(_)
TokenSpecs(n) ==
    IF n = 1 THEN SetTokens
    ELSE LET S == TokenSpecs(n - 1)
         IN  S \cup {s \o <<",">> \o t : s \in S, t \in SetTokens}

SetArgs == Concats(SetChars, MaxLen) \cup TokenSpecs(MaxTokens)

ClearArgs == Concats({k_class, k_size, <<",">>, <<" ">>}, MaxLen)

ClassArgs == Concats({<<"a">>, <<"b">>, <<",">>, <<" ">>}, MaxLen)

\* arguments of the calls whose value is no BoundField
OtherArgs == {<<>>, <<"a">>, k_min \o <<"=", "x">>, k_class}

Args(func) ==
    CASE func = "set_attr" -> SetArgs
      [] func = "clear_attr" -> ClearArgs
      [] func = "append_class" -> ClassArgs
      [] func = "remove_class" -> ClassArgs

\* the mappings a widget is built with
InitClass ==
    {EmptyDict,
     k_class :> StrVal(<<>>),
     k_class :> StrVal(<<"b">>),
     k_class :> StrVal(<<"a", " ", "b">>),
     k_class :> StrVal(<<" ", "b", " ", " ", "b">>)}

InitOther ==
    {EmptyDict,
     (k_size :> IntVal(1)) @@ (<<>> :> StrVal(<<>>)),
     <<"a">> :> StrVal(<<"x">>)}

InitAttrs == {c @@ o : c \in InitClass, o \in InitOther}

----------------------------------------------------------------------------
(* The state machine: a widget is built, then one filter is applied *)

Init ==
    /\ attrs \in InitAttrs
    /\ pre = attrs
    /\ op = "none"
    /\ arg = <<>>
    /\ isField = TRUE
    /\ err = NoError

\* {{ value|func:a }}: the decorated filter runs on the widget's mapping
Call(func, isBoundField, a) ==
    /\ op' = func
    /\ arg' = a
    /\ isField' = isBoundField
    /\ pre' = attrs
    /\ \E r \in boundfield_required(func, isBoundField, attrs, a) :
          /\ attrs' = r.attrs
          /\ err' = r.err

Inputs(func) == ({TRUE} \X Args(func)) \cup ({FALSE} \X OtherArgs)

SetAttr ==
    /\ op = "none"
    /\ \E i \in Inputs("set_attr") : Call("set_attr", i[1], i[2])

ClearAttr ==
    /\ op = "none"
    /\ \E i \in Inputs("clear_attr") : Call("clear_attr", i[1], i[2])

AppendClass ==
    /\ op = "none"
    /\ \E i \in Inputs("append_class") : Call("append_class", i[1], i[2])

RemoveClass ==
    /\ op = "none"
    /\ \E i \in Inputs("remove_class") : Call("remove_class", i[1], i[2])

Next == SetAttr \/ ClearAttr \/ AppendClass \/ RemoveClass

Spec == Init /\ [][Next]_vars

----------------------------------------------------------------------------
(* The variant of customtemplatetags/core/templatetags/field_attrs.py:     *)
(* its remove_class deletes the class key without testing that it is there *)

\* KeyError('<key>'), raised by del on a key the mapping lacks
KeyError(key) ==
    [kind |-> "KeyError", func |-> "", val |-> <<>>, key |-> key,
     expected_type |-> ""]

\* the outcomes of the variant's remove_class on mapping m
customtemplatetags_remove_class(m, class_names) ==
    LET classes == current_classes(m) \ ClassNames(class_names)
    IN  IF classes # {}
        THEN {[attrs |-> Put(m, k_class, StrVal(j)), err |-> NoError]
              : j \in SpaceJoined(classes)}
        ELSE IF k_class \in DOMAIN m
        THEN {[attrs |-> Del(m, k_class), err |-> NoError]}
        ELSE {[attrs |-> m, err |-> KeyError(k_class)]}

\* the variant's wrapper around its remove_class
customtemplatetags_boundfield_required(isBoundField, m, a) ==
    IF ~isBoundField
    THEN {[attrs |-> m, err |-> TypeError("remove_class")]}
    ELSE customtemplatetags_remove_class(m, a)

\* {{ value|remove_class:a }} with the variant's filter registered
RemoveClassVariant ==
    /\ op = "none"
    /\ \E i \in Inputs("remove_class") :
          /\ op' = "remove_class"
          /\ arg' = i[2]
          /\ isField' = i[1]
          /\ pre' = attrs
          /\ \E r \in customtemplatetags_boundfield_required(i[1], attrs, i[2]) :
                /\ attrs' = r.attrs
                /\ err' = r.err

\* remove_class as either source file defines it
NextRemoveClass == RemoveClass \/ RemoveClassVariant

SpecRemoveClass == Init /\ [][NextRemoveClass]_vars

----------------------------------------------------------------------------
(* What the claims speak of, stated without the loops of the code *)

ByField(func) == op = func /\ isField

\* the indices of the commas of s with no backslash right before them
SeparatorsOf(s) ==
    {i \in 1..Len(s) : s[i] = "," /\ (i = 1 \/ s[i - 1] # "\\")}

\* s without the backslashes that stand right before a comma
RECURSIVE Unescaped(_)
Unescaped(s) ==
    IF s = <<>> THEN <<>>
    ELSE IF Len(s) >= 2 /\ s[1] = "\\" /\ s[2] = ","
    THEN <<",">> \o Unescaped(SubSeq(s, 3, Len(s)))
    ELSE <<s[1]>> \o Unescaped(Tail(s))

\* the pieces of s between its separators, unescaped, in order
SegmentsOf(s) ==
    LET seps == SeparatorsOf(s)
        n == Cardinality(seps)
        \* the j-th separator from the left; 0 and Len(s) + 1 frame the text
        At(j) == IF j = 0 THEN 0
                 ELSE IF j = n + 1 THEN Len(s) + 1
                 ELSE CHOOSE i \in seps : Cardinality({x \in seps : x < i}) = j - 1
    IN  [j \in 1..(n + 1) |-> Unescaped(SubSeq(s, At(j - 1) + 1, At(j) - 1))]

\* the segments, an empty segment after the last separator left out
TokensOf(s) ==
    LET segs == SegmentsOf(s)
    IN  IF segs[Len(segs)] = <<>> THEN SubSeq(segs, 1, Len(segs) - 1) ELSE segs

IntKeysOfClaim == {k_size, k_minlength, k_maxlength, k_cols, k_rows}
FloatKeysOfClaim == {k_min, k_max, k_step}

IsBare(tok) == ~Contains(strip(tok), "=")

TokKey(tok) ==
    LET t == strip(tok)
    IN  IF IsBare(tok) THEN t ELSE strip(SubSeq(t, 1, Find(t, "=") - 1))

TokVal(tok) ==
    LET t == strip(tok) IN strip(SubSeq(t, Find(t, "=") + 1, Len(t)))

\* a key=value token whose value its key's type cannot take
IsInvalid(tok) ==
    /\ ~IsBare(tok)
    /\ \/ TokKey(tok) \in IntKeysOfClaim /\ ~IsInt(TokVal(tok))
       \/ TokKey(tok) \in FloatKeysOfClaim /\ ~IsFloat(TokVal(tok))

\* the entry a valid token stands for
TokEntry(tok) ==
    IF IsBare(tok) THEN StrVal(<<>>)
    ELSE IF TokKey(tok) \in IntKeysOfClaim THEN IntVal(ParseInt(TokVal(tok)))
    ELSE IF TokKey(tok) \in FloatKeysOfClaim
    THEN FloatVal(ParseFloat(TokVal(tok))[1], ParseFloat(TokVal(tok))[2])
    ELSE StrVal(TokVal(tok))

\* mapping m overridden by the tokens toks: the last token of a key decides
Overridden(m, toks) ==
    LET named == {TokKey(toks[i]) : i \in DOMAIN toks}
        last(k) == CHOOSE i \in DOMAIN toks :
                      /\ TokKey(toks[i]) = k
                      /\ \A j \in DOMAIN toks : TokKey(toks[j]) = k => j <= i
    IN  [k \in (DOMAIN m) \cup named |->
            IF k \in named THEN TokEntry(toks[last(k)]) ELSE m[k]]

\* index of the first invalid token of toks, 0 if all are valid
FirstInvalid(toks) ==
    LET bad == {i \in DOMAIN toks : IsInvalid(toks[i])}
    IN  IF bad = {} THEN 0 ELSE CHOOSE i \in bad : \A j \in bad : i <= j

\* the maximal runs <<first, last>> of s free of the characters of seps
MaximalRuns(s, seps) ==
    {r \in {<<i, j>> : i \in 1..Len(s), j \in 1..Len(s)} :
        /\ r[1] <= r[2]
        /\ \A x \in r[1]..r[2] : s[x] \notin seps
        /\ (r[1] = 1 \/ s[r[1] - 1] \in seps)
        /\ (r[2] = Len(s) \/ s[r[2] + 1] \in seps)}

WordsOf(s, seps) == {SubSeq(s, r[1], r[2]) : r \in MaximalRuns(s, seps)}

\* the class set of a mapping, empty without a class entry
ClassSetOf(m) ==
    IF k_class \in DOMAIN m THEN WordsOf(m[k_class].v, Whitespace) ELSE {}

\* the class names an argument lists, separated by commas and whitespace
ClassTokensOf(a) == WordsOf(a, Whitespace \cup {","})

\* s is the words of S, each once, with single spaces between
IsSpaceJoinOf(s, S) ==
    LET words == SplitOn(s, " ")
    IN  /\ S # {}
        /\ Len(words) = Cardinality(S)
        /\ Range(words) = S

SameExceptClass(m, n) ==
    /\ (DOMAIN m) \ {k_class} = (DOMAIN n) \ {k_class}
    /\ \A k \in (DOMAIN m) \ {k_class} : m[k] = n[k]

----------------------------------------------------------------------------
(* The claims *)

\* C1: when every token of the argument is valid, set_attr returns and the
\* mapping is the old mapping overridden by one entry per token: "" for a
\* bare key, the int for an integer key, the float for a float key, the
\* trimmed string for any other key; the last token of a key decides, and
\* keys no token names keep their entries.
C1_SetAttrAppliesTokens ==
    ByField("set_attr") =>
        LET toks == split_attributes(arg)
        IN  FirstInvalid(toks) = 0 =>
                /\ err = NoError
                /\ attrs = Overridden(pre, toks)

C1_Witness ==
    /\ ByField("set_attr")
    /\ arg = k_size \o <<"=", "7", ",">> \o k_min \o <<"=", "1", ".", "5">>
    /\ err = NoError
    /\ attrs = (k_size :> IntVal(7)) @@ (k_min :> FloatVal(3, 2)) @@ pre
    /\ <<>> \in DOMAIN pre

\* C2: the tokens set_attr works on are the pieces of the argument between
\* the commas that no backslash precedes, with every backslash-comma pair
\* turned into a comma and every other character kept; an empty piece after
\* the last such comma gives no token.
C2_SplitAtUnescapedCommas ==
    ByField("set_attr") => split_attributes(arg) = TokensOf(arg)

C2_Witness ==
    /\ ByField("set_attr")
    /\ arg = <<"a", "\\", ",", "a">>
    /\ split_attributes(arg) = <<(<<"a", ",", "a">>)>>
    /\ attrs = (<<"a", ",", "a">> :> StrVal(<<>>)) @@ pre

\* C3: set_attr raises a format error exactly when some key=value token has
\* an integer key with a value that is no integer, or a float key with a
\* value that is no number; the error names the value and the key of the
\* first such token and says "integer" for an integer key, "floating-point"
\* for a float key.  No other token raises.
C3_FormatErrors ==
    ByField("set_attr") =>
        LET toks == split_attributes(arg)
            k == FirstInvalid(toks)
        IN  IF k = 0 THEN err = NoError
            ELSE err = TemplateSyntaxError(
                          TokVal(toks[k]), TokKey(toks[k]),
                          IF TokKey(toks[k]) \in IntKeysOfClaim
                          THEN "integer" ELSE "floating-point")

C3_Witness ==
    /\ ByField("set_attr")
    /\ arg = k_min \o <<"=", "x">>
    /\ err = TemplateSyntaxError(<<"x">>, k_min, "floating-point")

\* C4: when set_attr raises at its k-th token, the mapping is the old one
\* overridden by the tokens 1..k-1 and by nothing else.
C4_NoRollback ==
    ByField("set_attr") =>
        LET toks == split_attributes(arg)
            k == FirstInvalid(toks)
        IN  k > 0 =>
                /\ err.kind = "TemplateSyntaxError"
                /\ attrs = Overridden(pre, SubSeq(toks, 1, k - 1))

C4_Witness ==
    /\ ByField("set_attr")
    /\ arg = k_id \o <<"=", "7", ",">> \o k_size \o <<"=", "x">>
    /\ err.kind = "TemplateSyntaxError"
    /\ k_id \notin DOMAIN pre
    /\ attrs = (k_id :> StrVal(<<"7">>)) @@ pre

\* C5: a filter called with a value that is no BoundField raises a
\* TypeError naming the filter, whatever its argument, and leaves the
\* mapping as it was.
C5_TypeErrorFirst ==
    (op # "none" /\ ~isField) => (err = TypeError(op) /\ attrs = pre)

C5_Witness ==
    /\ op = "set_attr"
    /\ ~isField
    /\ arg = k_min \o <<"=", "x">>
    /\ err = TypeError("set_attr")

\* C6: clear_attr returns, deletes exactly the keys present that the
\* comma-separated, trimmed names list, keeps every other entry, and doing
\* it again with the same names changes nothing.
C6_ClearAttr ==
    ByField("clear_attr") =>
        LET names == {strip(n) : n \in Range(SplitOn(arg, ","))}
        IN  /\ err = NoError
            /\ DOMAIN attrs = (DOMAIN pre) \ names
            /\ \A k \in DOMAIN attrs : attrs[k] = pre[k]
            /\ clear_attr(attrs, arg) = attrs

C6_Witness ==
    /\ ByField("clear_attr")
    /\ arg = k_class \o <<",", " ">> \o k_size
    /\ DOMAIN pre = {k_class, k_size, <<>>}
    /\ DOMAIN attrs = {<<>>}

\* C7: after append_class the class set is the old class set united with
\* the non-empty tokens of the argument, no class stands twice in the class
\* string, every entry but class is unchanged, and appending the same
\* argument again leaves the class set as it is.
C7_AppendClass ==
    ByField("append_class") =>
        /\ err = NoError
        /\ ClassSetOf(attrs) = ClassSetOf(pre) \cup ClassTokensOf(arg)
        /\ k_class \in DOMAIN attrs =>
              Len(SplitWs(attrs[k_class].v)) = Cardinality(ClassSetOf(attrs))
        /\ SameExceptClass(attrs, pre)
        /\ \A again \in append_class(attrs, arg) :
              ClassSetOf(again) = ClassSetOf(attrs)

C7_Witness ==
    /\ ByField("append_class")
    /\ arg = <<"a", ",", "b", " ">>
    /\ ClassSetOf(pre) = {<<"b">>}
    /\ ClassSetOf(attrs) = {<<"a">>, <<"b">>}

\* C8: after remove_class the class set is the old class set less the
\* tokens of the argument; if that set is empty the mapping has no class
\* entry, otherwise class holds the remaining classes joined by spaces; in
\* no case is class the empty string.
C8_RemoveClass ==
    ByField("remove_class") =>
        LET remaining == ClassSetOf(pre) \ ClassTokensOf(arg)
        IN  /\ err = NoError
            /\ ClassSetOf(attrs) = remaining
            /\ IF remaining = {} THEN k_class \notin DOMAIN attrs
               ELSE /\ k_class \in DOMAIN attrs
                    /\ IsSpaceJoinOf(attrs[k_class].v, remaining)
            /\ k_class \in DOMAIN attrs => attrs[k_class] # StrVal(<<>>)

C8_Witness ==
    /\ ByField("remove_class")
    /\ arg = <<"a", " ", "b">>
    /\ ClassSetOf(pre) = {<<"a">>, <<"b">>}
    /\ k_class \notin DOMAIN attrs

\* C9 as claimed: after every append_class on a BoundField the mapping has
\* a class entry.
C9_AlwaysWritesClass ==
    ByField("append_class") => k_class \in DOMAIN attrs

\* C9, amended: append_class writes the class set back as one string of the
\* classes joined by single spaces when that set is not empty; when it is
\* empty the mapping is left as it was, and no class entry is created.
C9_WritesNonEmptyClassSet ==
    ByField("append_class") =>
        LET classes == ClassSetOf(pre) \cup ClassTokensOf(arg)
        IN  IF classes # {}
            THEN /\ k_class \in DOMAIN attrs
                 /\ IsSpaceJoinOf(attrs[k_class].v, classes)
            ELSE attrs = pre

C9_Witness ==
    /\ ByField("append_class")
    /\ arg = <<" ", ",">>
    /\ k_class \notin DOMAIN pre
    /\ k_class \notin DOMAIN attrs

\* C10 as claimed: set_attr writes no entry whose key is the empty string;
\* the mapping has such a key afterwards only if it had it before.
C10_NoEmptyKeyWritten ==
    ByField("set_attr") => (<<>> \in DOMAIN attrs => <<>> \in DOMAIN pre)

\* C11: remove_class, as either source file defines it, returns normally on
\* every BoundField; when no class remains (the mapping had no class entry,
\* or every class it had is removed) the mapping has no class entry
\* afterwards and every other entry is unchanged.
C11_RemoveClassNeverFails ==
    ByField("remove_class") =>
        /\ err = NoError
        /\ ClassSetOf(pre) \ ClassTokensOf(arg) = {} =>
              /\ k_class \notin DOMAIN attrs
              /\ SameExceptClass(attrs, pre)

====
